---- MODULE Spec2Model ----
(***************************************************************************)
(* Model of bioconda_utils/anaconda.py: the RepoData singleton, its        *)
(* construction from the network or from a cache file, and its queries.    *)
(*                                                                         *)
(* Data representation                                                     *)
(*   - a version string "1.10" is the sequence of its dotted components    *)
(*     <<1, 10>>; a table cell holding a version is tagged with the dtype  *)
(*     pandas gave its column: [t |-> "str", v |-> <<1, 10>>] for an       *)
(*     object column, [t |-> "float", v |-> <<1, 1>>] for a float64 one    *)
(*     (integer part, fraction digits without trailing zeros);             *)
(*   - a DataFrame is [columns, index, rows]: the column labels in order,  *)
(*     the index labels, and one function (column label -> cell) per row;  *)
(*   - Python's None is the tagged value NoneV.                            *)
(***************************************************************************)
EXTENDS Integers, Sequences, FiniteSets, TLC

\* ------------------------------------------------------------------ bounds

\* Top-level calls (RepoData(...), or __init__ called again on the instance) per caller.
MaxCalls == 3
\* (channel, platform) documents of the remote side that list a package.
MaxNonEmpty == 2
\* RepoData() requests per thread when two threads run.
MaxConcCalls == 1

\* --------------------------------------------------------- class constants

REPODATA_URL == "https://conda.anaconda.org/{channel}/{subdir}/repodata.json"
REPODATA_DEFAULTS_URL == "https://repo.anaconda.com/pkgs/main/{subdir}/repodata.json"

load_columns == <<"build", "build_number", "name", "version">>
columns == load_columns \o <<"channel", "subdir", "platform">>
platforms == <<"linux", "osx", "noarch">>
channels == <<"conda-forge", "bioconda", "defaults">>

HTTP_OK == 200

\* ------------------------------------------------------------------ values

NoneV == [t |-> "None", v |-> <<>>]
Str(s) == [t |-> "str", v |-> s]
IntV(n) == [t |-> "int", v |-> n]

Range(s) == {s[i] : i \in DOMAIN s}

\* Python truthiness of an argument: None, 0 and "" are false.
Truthy(a) ==
    /\ a.t # "None"
    /\ ~(a.t = "int" /\ a.v = 0)
    /\ ~(a.t = "str" /\ a.v = <<>>)

\* ------------------------------------------------------- the remote side

Names == {"p", "q"}
BuildNumbers == {0, 1}

\* One value of a document's "packages" map: the four loaded fields and one
\* of the fields the index does not load.
Block(n, v, b) ==
    [name |-> n, version |-> Str(v), build_number |-> b,
     build |-> IF b = 0 THEN "h_0" ELSE "h_1", depends |-> "python"]

\* The key of a "packages" entry: the package's file name.
FileName(n, v, b) == <<n, v, b>>

Entry(n, v, b) == [key |-> FileName(n, v, b), block |-> Block(n, v, b)]

\* The packages the remote documents list.
Entries ==
    {Entry("p", <<1, 9>>, 0), Entry("p", <<1, 9>>, 1),
     Entry("p", <<1, 10>>, 0), Entry("q", <<2, 0, 1>>, 0)}

\* A document: its info block's subdir and its packages in document order.
Doc(s, pkgs) == [info |-> [subdir |-> s], packages |-> pkgs]

\* A subdir other than the one asked for, as an inconsistent upstream declares.
OtherSubdir(subdir) == IF subdir = "noarch" THEN "linux-64" ELSE "noarch"

\* The documents the URL of a subdir can serve that list a package: one
\* package of entries; the document's own subdir is the one asked for or,
\* for the first package, another one.
DocsFor(subdir, entries) ==
    {Doc(subdir, <<e>>) : e \in entries}
        \cup {Doc(OtherSubdir(subdir), <<e>>) : e \in entries \cap {Entry("p", <<1, 9>>, 0)}}

\* The json of a response whose body is not parsed.
NoJson == [info |-> [subdir |-> "?"], packages |-> <<>>]

Pairs == {<<c, p>> : c \in Range(channels), p \in Range(platforms)}

\* ------------------------------------------------------------ DataFrames

\* pd.DataFrame.from_dict(packages, 'index', columns=cols): one row per value
\* of the map, indexed by its key, keeping only the columns asked for.
FromDict(pkgs, cols) ==
    [columns |-> cols,
     index |-> [i \in DOMAIN pkgs |-> pkgs[i].key],
     rows |-> [i \in DOMAIN pkgs |-> [c \in Range(cols) |-> pkgs[i].block[c]]]]

\* df[col] = val: broadcast a scalar to every row; a new column goes last.
SetColumn(df, col, val) ==
    [columns |-> IF col \in Range(df.columns) THEN df.columns
                 ELSE Append(df.columns, col),
     index |-> df.index,
     rows |-> [i \in DOMAIN df.rows |->
                 [c \in (DOMAIN df.rows[i]) \cup {col} |->
                     IF c = col THEN val ELSE df.rows[i][c]]]]

RECURSIVE ConcatField(_, _)
ConcatField(dfs, f) ==
    IF dfs = <<>> THEN <<>> ELSE dfs[1][f] \o ConcatField(Tail(dfs), f)

\* pd.concat(dfs) of frames that all have the same columns.
Concat(dfs) ==
    [columns |-> dfs[1].columns,
     index |-> ConcatField(dfs, "index"),
     rows |-> ConcatField(dfs, "rows")]

\* The text of a cell in the CSV file. A version prints as its dotted
\* components whatever its dtype (the float 1.1 prints "1.1"); the dtype
\* itself is not written.
CellText(col, cell) == IF col = "version" THEN cell.v ELSE cell

\* df.to_csv(cache, sep='\t'): a header line (the index column has the empty
\* label) and one line per row, the index value first.
ToCsv(df) ==
    [header |-> <<"">> \o df.columns,
     lines |-> [i \in DOMAIN df.rows |->
                  [c \in Range(df.columns) \cup {""} |->
                      IF c = "" THEN df.index[i]
                      ELSE CellText(c, df.rows[i][c])]]]

RECURSIVE StripZeros(_)
StripZeros(n) == IF n > 0 /\ n % 10 = 0 THEN StripZeros(n \div 10) ELSE n

\* The dtype pandas infers for a column of version texts: int64 when every
\* text is a bare integer, float64 when every text has at most one dot, else
\* object (the strings as written).
VersionDtype(texts) ==
    IF texts = {} THEN "str"
    ELSE IF \A v \in texts : Len(v) = 1 THEN "int"
    ELSE IF \A v \in texts : Len(v) <= 2 THEN "float"
    ELSE "str"

ParseVersion(dtype, v) ==
    CASE dtype = "int" -> [t |-> "int", v |-> v]
      [] dtype = "float" ->
            [t |-> "float",
             v |-> <<v[1], IF Len(v) = 1 THEN 0 ELSE StripZeros(v[2])>>]
      [] OTHER -> [t |-> "str", v |-> v]

ReadLabel(h) == IF h = "" THEN "Unnamed: 0" ELSE h

\* pd.read_table(cache): every column of the file is data (the unlabeled
\* first one is named "Unnamed: 0"), the index is 0..n-1 and each column's
\* dtype is inferred from its texts.
ReadTable(file) ==
    LET dt == VersionDtype({file.lines[i]["version"] : i \in DOMAIN file.lines})
    IN [columns |-> [k \in DOMAIN file.header |-> ReadLabel(file.header[k])],
        index |-> [i \in DOMAIN file.lines |-> i - 1],
        rows |-> [i \in DOMAIN file.lines |->
                    [c \in {ReadLabel(h) : h \in Range(file.header)} |->
                        IF c = "Unnamed: 0" THEN file.lines[i][""]
                        ELSE IF c = "version"
                             THEN ParseVersion(dt, file.lines[i][c])
                             ELSE file.lines[i][c]]]]

\* --------------------------------------------------------------- results

Ok(v) == [status |-> "ok", val |-> v]
Raise(exc, msg) == [status |-> "raise", val |-> <<exc, msg>>]

\* ------------------------------------------------------- static methods

\* str.startswith: prefix is a prefix of s.
StartsWith(s, prefix) ==
    Len(s) >= Len(prefix) /\ SubSeq(s, 1, Len(prefix)) = prefix

native_platform(sysplatform) ==
    IF StartsWith(sysplatform, "linux") THEN Ok("linux")
    ELSE IF StartsWith(sysplatform, "darwin") THEN Ok("osx")
    ELSE Raise("ValueError", "Running on unsupported platform")

platform2subdir(platform) ==
    IF platform = "linux" THEN Ok("linux-64")
    ELSE IF platform = "osx" THEN Ok("osx-64")
    ELSE IF platform = "noarch" THEN Ok("noarch")
    ELSE Raise("ValueError", "Unsupported platform")

\* The URL fetch_repodata asks for: the template and what it is filled with.
\* The defaults template has no {channel} field.
RepodataUrl(channel, platform) ==
    IF channel = "defaults"
    THEN <<REPODATA_DEFAULTS_URL, platform2subdir(platform).val>>
    ELSE <<REPODATA_URL, channel, platform2subdir(platform).val>>

\* fetch_repodata(channel, platform) on a response [status_code, reason, is_json,
\* json]: the parsed body, or the error raised.
fetch_repodata(channel, platform, response) ==
    IF platform2subdir(platform).status = "raise" THEN platform2subdir(platform)
    ELSE IF response.status_code # HTTP_OK
    THEN Raise("HTTPError",
               <<response.status_code, response.reason, RepodataUrl(channel, platform)>>)
    ELSE IF ~response.is_json
    THEN Raise("JSONDecodeError", "Expecting value: line 1 column 1 (char 0)")
    ELSE Ok(response.json)

\* As BatchFrame, with the subdir derived from the platform asked for
\* instead of read from the document.
BatchFrameRequestedSubdir(channel, platform, repo) ==
    SetColumn(
        SetColumn(
            SetColumn(FromDict(repo.packages, load_columns), "channel", channel),
            "platform", platform),
        "subdir", platform2subdir(platform).val)

\* Lines 96-100 of __init__: the frame of one (channel, platform) batch.
BatchFrame(channel, platform, repo) ==
    SetColumn(
        SetColumn(
            SetColumn(FromDict(repo.packages, load_columns), "channel", channel),
            "platform", platform),
        "subdir", repo.info.subdir)

\* ---------------------------------------------------------------- queries

\* self.df[mask]: the index positions a boolean mask over the rows selects.
Selected(df, mask) == {i \in DOMAIN df.rows : mask[i]}

\* The orders list(set(x)) can produce for the set s.
RECURSIVE Orders(_)
Orders(s) ==
    IF s = {} THEN {<<>>}
    ELSE UNION {{<<x>> \o o : o \in Orders(s \ {x})} : x \in s}

\* As get_versions, with list(x) for list(set(x)): a platform is listed once
\* per row.
get_versions_list(df, name) ==
    LET sel == Selected(df, [i \in DOMAIN df.rows |-> df.rows[i]["name"] = name])
        vers == {df.rows[i]["version"] : i \in sel}
        RECURSIVE plats(_, _)
        plats(v, i) ==
            IF i > Len(df.rows) THEN <<>>
            ELSE (IF i \in sel /\ df.rows[i]["version"] = v
                  THEN <<df.rows[i]["platform"]>> ELSE <<>>) \o plats(v, i + 1)
    IN {[v \in vers |-> plats(v, 1)]}

\* get_versions(name): the dictionaries the call can return, one per order in
\* which list(set(x)) lists each version's platforms.
get_versions(df, name) ==
    LET sel == Selected(df, [i \in DOMAIN df.rows |-> df.rows[i]["name"] = name])
        vers == {df.rows[i]["version"] : i \in sel}
        plats(v) == {df.rows[i]["platform"] : i \in {j \in sel : df.rows[j]["version"] = v}}
    IN {d \in [vers -> UNION {Orders(plats(v)) : v \in vers}] :
            \A v \in vers : d[v] \in Orders(plats(v))}

\* get_channels(name, version, build_number)
get_channels(df, name, version, build_number) ==
    LET keep(r) ==
            /\ r["name"] = name
            /\ Truthy(version) => r["version"] = version
            /\ Truthy(build_number) => r["build_number"] = build_number.v
    IN Ok({df.rows[i]["channel"] : i \in Selected(df, [j \in DOMAIN df.rows |-> keep(df.rows[j])])})

\* get_latest_versions(channel): the selection of line 188 is a Series of the
\* version column alone, so grouping it by 'name' raises KeyError before
\* max_vers is applied; nothing is returned in any case.
get_latest_versions(df, channel) ==
    LET packages == [i \in Selected(df, [j \in DOMAIN df.rows |-> df.rows[j]["channel"] = channel]) |->
                        df.rows[i]["version"]]
    IN Raise("KeyError", "name")

\* get_package_data(key, ...): building the tuple of (column, value) pairs
\* calls the tuple ('build_number', build_number) with ('platform', platform)
\* as arguments, which raises TypeError before the first filter is applied.
get_package_data(df, key, chans, name, version, build_number, platform, native, sysplatform) ==
    IF native /\ native_platform(sysplatform).status = "raise"
    THEN native_platform(sysplatform)
    ELSE Raise("TypeError", "'tuple' object is not callable")

\* ------------------------------------------------------------------ state

Threads == {1, 2}

\* What the remote side can be: each (channel, platform) URL serves one
\* document, and at most MaxNonEmpty of them list a package.
Worlds(entries) ==
    LET subdir(pr) == IF pr[2] = "linux" THEN "linux-64"
                      ELSE IF pr[2] = "osx" THEN "osx-64" ELSE "noarch"
        some == UNION {DocsFor(subdir(pr), entries) : pr \in Pairs}
    IN UNION {
         {[pr \in Pairs |-> IF pr \in S THEN f[pr] ELSE Doc(subdir(pr), <<>>)] :
             f \in {g \in [S -> some] :
                      \A pr \in S : g[pr] \in DocsFor(subdir(pr), entries)}} :
         S \in {T \in SUBSET Pairs : Cardinality(T) <= MaxNonEmpty}}

VARIABLES
    instance,   \* RepoData.__instance: 0 for None, else the object (named by its creating thread)
    objs,       \* per object: whether it exists, whether it has the attribute df, and df
    file,       \* the cache path: whether a file exists there, and its content
    remote,     \* the document each (channel, platform) URL serves
    pc,         \* per thread: where its current call stands
    fr,         \* per thread: the locals of its current call
    ret,        \* per thread: its last finished call and what it returned or raised
    held,       \* per thread: the instance its caller holds (0: none)
    calls,      \* per thread: top-level calls made so far
    io          \* the I/O the last step performed: "none", "fetch", "read" or "write"

vars == <<instance, objs, file, remote, pc, fr, ret, held, calls, io>>

CachePath == Str("repodata.tsv")

NoFrame == [columns |-> <<>>, index |-> <<>>, rows |-> <<>>]
NoObj == [exists |-> FALSE, hasdf |-> FALSE, df |-> NoFrame]
NoFile == [header |-> <<>>, lines |-> <<>>]
NoLocals == [kind |-> "none", cache |-> NoneV, self |-> 0, ci |-> 1, pi |-> 1,
             dfs |-> <<>>, flog |-> <<>>, path |-> "none"]
NoRet == [op |-> "none", args |-> <<>>, status |-> "none", val |-> <<>>]

Result(op, args, r) == [op |-> op, args |-> args, status |-> r.status, val |-> r.val]

InitWith(entries) ==
    /\ instance = 0
    /\ objs = [o \in Threads |-> NoObj]
    /\ file = [exists |-> FALSE, content |-> NoFile]
    /\ remote \in Worlds(entries)
    /\ pc = [t \in Threads |-> "idle"]
    /\ fr = [t \in Threads |-> NoLocals]
    /\ ret = [t \in Threads |-> NoRet]
    /\ held = [t \in Threads |-> 0]
    /\ calls = [t \in Threads |-> 0]
    /\ io = "none"

\* ------------------------------------------------------------ construction

\* RepoData(): type.__call__ binds the arguments to __new__(cls) and enters it.
Construct(t, maxcalls) ==
    /\ pc[t] = "idle"
    /\ calls[t] < maxcalls
    /\ calls' = [calls EXCEPT ![t] = @ + 1]
    /\ fr' = [fr EXCEPT ![t] = [NoLocals EXCEPT !.kind = "RepoData"]]
    /\ ret' = [ret EXCEPT ![t] = NoRet]
    /\ pc' = [pc EXCEPT ![t] = "new_check"]
    /\ io' = "none"
    /\ UNCHANGED <<instance, objs, file, remote, held>>

\* RepoData(cache): __new__(cls) takes no further argument, so binding the
\* arguments raises TypeError before __new__ or __init__ runs.
ConstructWithCache(t, maxcalls) ==
    /\ pc[t] = "idle"
    /\ calls[t] < maxcalls
    /\ calls' = [calls EXCEPT ![t] = @ + 1]
    /\ ret' = [ret EXCEPT ![t] =
                  Result("RepoData", <<CachePath>>,
                         Raise("TypeError", "__new__() takes 1 positional argument"))]
    /\ io' = "none"
    /\ UNCHANGED <<instance, objs, file, remote, pc, fr, held>>

\* __new__, line 81: the test of RepoData.__instance.
NewCheck(t) ==
    /\ pc[t] = "new_check"
    /\ pc' = [pc EXCEPT ![t] = IF instance = 0 THEN "new_store" ELSE "new_return"]
    /\ io' = "none"
    /\ UNCHANGED <<instance, objs, file, remote, fr, ret, held, calls>>

\* __new__, line 82: a new object is made and stored in RepoData.__instance.
NewStore(t) ==
    /\ pc[t] = "new_store"
    /\ objs' = [objs EXCEPT ![t] = [NoObj EXCEPT !.exists = TRUE]]
    /\ instance' = t
    /\ pc' = [pc EXCEPT ![t] = "new_return"]
    /\ io' = "none"
    /\ UNCHANGED <<file, remote, fr, ret, held, calls>>

\* __new__, line 83: RepoData.__instance is read again and returned;
\* type.__call__ then calls __init__ on it with the (empty) arguments.
NewReturn(t) ==
    /\ pc[t] = "new_return"
    /\ fr' = [fr EXCEPT ![t].self = instance]
    /\ pc' = [pc EXCEPT ![t] = "init"]
    /\ io' = "none"
    /\ UNCHANGED <<instance, objs, file, remote, ret, held, calls>>

\* instance.__init__(cache) called by a caller that holds the instance: the
\* only call that reaches __init__ with a cache argument.
InitAgain(t, cache, maxcalls) ==
    /\ pc[t] = "idle"
    /\ held[t] # 0
    /\ calls[t] < maxcalls
    /\ calls' = [calls EXCEPT ![t] = @ + 1]
    /\ fr' = [fr EXCEPT ![t] = [NoLocals EXCEPT !.kind = "__init__", !.cache = cache,
                                                !.self = held[t]]]
    /\ ret' = [ret EXCEPT ![t] = NoRet]
    /\ pc' = [pc EXCEPT ![t] = "init"]
    /\ io' = "none"
    /\ UNCHANGED <<instance, objs, file, remote, held>>

\* What the finished call hands its caller: RepoData() the instance, a bare
\* __init__ None.
Returned(t) ==
    IF fr[t].kind = "RepoData" THEN Ok(IntV(fr[t].self)) ELSE Ok(NoneV)

Finish(t) ==
    /\ pc' = [pc EXCEPT ![t] = "idle"]
    /\ ret' = [ret EXCEPT ![t] = Result(fr[t].kind, <<fr[t].cache>>, Returned(t))]
    /\ held' = [held EXCEPT ![t] = IF fr[t].kind = "RepoData" THEN fr[t].self ELSE @]

\* __init__, lines 86-88: the cache file exists and is read as the table.
LoadCache(t) ==
    /\ pc[t] = "init"
    /\ fr[t].cache # NoneV /\ file.exists
    /\ objs' = [objs EXCEPT ![fr[t].self].hasdf = TRUE,
                            ![fr[t].self].df = ReadTable(file.content)]
    /\ fr' = [fr EXCEPT ![t].path = "cache"]
    /\ Finish(t)
    /\ io' = "read"
    /\ UNCHANGED <<instance, file, remote, calls>>

\* __init__, lines 90-92: no cache to read, the build from the network starts.
BeginBuild(t) ==
    /\ pc[t] = "init"
    /\ ~(fr[t].cache # NoneV /\ file.exists)
    /\ fr' = [fr EXCEPT ![t].dfs = <<>>, ![t].ci = 1, ![t].pi = 1, ![t].path = "network"]
    /\ pc' = [pc EXCEPT ![t] = "fetch"]
    /\ io' = "none"
    /\ UNCHANGED <<instance, objs, file, remote, ret, held, calls>>

\* The loop's next (channel, platform), or the end of both loops.
Advance(l) ==
    IF l.pi < Len(platforms) THEN [l EXCEPT !.pi = @ + 1]
    ELSE [l EXCEPT !.ci = @ + 1, !.pi = 1]

\* __init__, lines 93-101: one pass of the loop body whose fetch succeeds.
FetchOk(t) ==
    /\ pc[t] = "fetch"
    /\ LET channel == channels[fr[t].ci]
           platform == platforms[fr[t].pi]
           repo == fetch_repodata(channel, platform,
                                  [status_code |-> HTTP_OK, reason |-> "OK", is_json |-> TRUE,
                                   json |-> remote[<<channel, platform>>]])
           l == [fr[t] EXCEPT
                   !.dfs = Append(@, BatchFrame(channel, platform, repo.val)),
                   !.flog = Append(@, [channel |-> channel, platform |-> platform,
                                       repo |-> repo.val])]
       IN /\ repo.status = "ok"
          /\ fr' = [fr EXCEPT ![t] = Advance(l)]
          /\ pc' = [pc EXCEPT ![t] =
                       IF Advance(l).ci > Len(channels) THEN "concat" ELSE "fetch"]
    /\ io' = "fetch"
    /\ UNCHANGED <<instance, objs, file, remote, ret, held, calls>>

\* The responses that make fetch_repodata raise: a status other than 200, and
\* a body that is not JSON.
Responses ==
    {[status_code |-> 404, reason |-> "Not Found", is_json |-> FALSE, json |-> NoJson],
     [status_code |-> HTTP_OK, reason |-> "OK", is_json |-> FALSE, json |-> NoJson]}

\* __init__, line 95, when fetch_repodata raises: the exception leaves
\* __init__ and the call; nothing is undone.
FetchFail(t) ==
    /\ pc[t] = "fetch"
    /\ \E response \in Responses :
         LET repo == fetch_repodata(channels[fr[t].ci], platforms[fr[t].pi], response)
         IN /\ repo.status = "raise"
            /\ ret' = [ret EXCEPT ![t] = Result(fr[t].kind, <<fr[t].cache>>, repo)]
    /\ pc' = [pc EXCEPT ![t] = "idle"]
    /\ io' = "fetch"
    /\ UNCHANGED <<instance, objs, file, remote, fr, held, calls>>

\* __init__, lines 103-105 without a cache path: the batches are concatenated
\* into self.df and the call returns.
ConcatAssign(t) ==
    /\ pc[t] = "concat"
    /\ objs' = [objs EXCEPT ![fr[t].self].hasdf = TRUE,
                            ![fr[t].self].df = Concat(fr[t].dfs)]
    /\ IF fr[t].cache = NoneV
       THEN Finish(t)
       ELSE /\ pc' = [pc EXCEPT ![t] = "to_csv"]
            /\ UNCHANGED <<ret, held>>
    /\ io' = "none"
    /\ UNCHANGED <<instance, file, remote, fr, calls>>

\* __init__, line 106: self.df is written to the cache path.
CacheWrite(t) ==
    /\ pc[t] = "to_csv"
    /\ file' = [exists |-> TRUE, content |-> ToCsv(objs[fr[t].self].df)]
    /\ Finish(t)
    /\ io' = "write"
    /\ UNCHANGED <<instance, objs, remote, fr, calls>>

\* ---------------------------------------------------------------- queries

VersionArgs == {NoneV, Str(<<1, 9>>), Str(<<1, 10>>)}
BuildNumberArgs == {NoneV} \cup {IntV(b) : b \in BuildNumbers}

\* A query method can be called by a caller that holds the instance (an
\* instance is handed out only by a call that assigned self.df) and has
\* taken the result of its previous call.
CanQuery(t) ==
    /\ pc[t] = "idle"
    /\ held[t] # 0
    /\ ret[t].op \in {"none", "RepoData", "__init__"}

\* The caller takes the value a query returned, or the exception it raised.
Receive(t) ==
    /\ pc[t] = "idle"
    /\ ret[t].op \notin {"none", "RepoData", "__init__"}
    /\ ret' = [ret EXCEPT ![t] = NoRet]
    /\ io' = "none"
    /\ UNCHANGED <<instance, objs, file, remote, pc, fr, held, calls>>

GetVersions(t) ==
    /\ CanQuery(t)
    /\ \E name \in Names :
         \E d \in get_versions(objs[held[t]].df, name) :
            ret' = [ret EXCEPT ![t] = Result("get_versions", <<name>>, Ok(d))]
    /\ io' = "none"
    /\ UNCHANGED <<instance, objs, file, remote, pc, fr, held, calls>>

\* As GetChannels, with the selection assigned to self.df instead of a local.
GetChannelsNarrowing(t) ==
    /\ CanQuery(t)
    /\ \E name \in Names, version \in VersionArgs, build_number \in BuildNumberArgs :
         LET df == objs[held[t]].df
             keep(r) ==
                 /\ r["name"] = name
                 /\ Truthy(version) => r["version"] = version
                 /\ Truthy(build_number) => r["build_number"] = build_number.v
             RECURSIVE labels(_)
             labels(i) ==
                 IF i > Len(df.rows) THEN <<>>
                 ELSE (IF keep(df.rows[i]) THEN <<df.index[i]>> ELSE <<>>) \o labels(i + 1)
             narrowed == [df EXCEPT !.rows = SelectSeq(df.rows, keep), !.index = labels(1)]
         IN /\ objs' = [objs EXCEPT ![held[t]].df = narrowed]
            /\ ret' = [ret EXCEPT ![t] =
                          Result("get_channels", <<name, version, build_number>>,
                                 get_channels(df, name, version, build_number))]
    /\ io' = "none"
    /\ UNCHANGED <<instance, file, remote, pc, fr, held, calls>>

GetChannels(t) ==
    /\ CanQuery(t)
    /\ \E name \in Names, version \in VersionArgs, build_number \in BuildNumberArgs :
         ret' = [ret EXCEPT ![t] =
                    Result("get_channels", <<name, version, build_number>>,
                           get_channels(objs[held[t]].df, name, version, build_number))]
    /\ io' = "none"
    /\ UNCHANGED <<instance, objs, file, remote, pc, fr, held, calls>>

GetLatestVersions(t) ==
    /\ CanQuery(t)
    /\ \E channel \in Range(channels) :
         ret' = [ret EXCEPT ![t] =
                    Result("get_latest_versions", <<channel>>,
                           get_latest_versions(objs[held[t]].df, channel))]
    /\ io' = "none"
    /\ UNCHANGED <<instance, objs, file, remote, pc, fr, held, calls>>

\* The host this process runs on, as sys.platform names it, is an input of
\* the call with native=True.
GetPackageData(t) ==
    /\ CanQuery(t)
    /\ \E build_number \in {NoneV, IntV(0)}, platform \in {NoneV, Str("linux")},
          host \in {<<FALSE, "linux">>, <<TRUE, "linux">>, <<TRUE, "linux2">>,
                    <<TRUE, "darwin20">>, <<TRUE, "win32">>} :
         ret' = [ret EXCEPT ![t] =
                    Result("get_package_data",
                           <<"version", NoneV, NoneV, NoneV, build_number, platform,
                             host[1], host[2]>>,
                           get_package_data(objs[held[t]].df, "version", NoneV, NoneV,
                                            NoneV, build_number, platform,
                                            host[1], host[2]))]
    /\ io' = "none"
    /\ UNCHANGED <<instance, objs, file, remote, pc, fr, held, calls>>

\* ---------------------------------------------------------- specifications

\* One caller: constructions and re-initialisations, step by step.
Next ==
    \/ Construct(1, MaxCalls)
    \/ ConstructWithCache(1, MaxCalls)
    \/ InitAgain(1, CachePath, MaxCalls)
    \/ NewCheck(1)
    \/ NewStore(1)
    \/ NewReturn(1)
    \/ LoadCache(1)
    \/ BeginBuild(1)
    \/ FetchOk(1)
    \/ FetchFail(1)
    \/ ConcatAssign(1)
    \/ CacheWrite(1)

\* The lifecycle is explored over the remote sides that list these two packages.
Init == InitWith({Entry("p", <<1, 9>>, 0), Entry("q", <<2, 0, 1>>, 0)})

Spec == Init /\ [][Next]_vars

\* Two threads, each requesting the instance, interleaved at every step.
ConcNext ==
    \E t \in Threads :
        \/ Construct(t, MaxConcCalls)
        \/ NewCheck(t)
        \/ NewStore(t)
        \/ NewReturn(t)
        \/ BeginBuild(t)
        \/ FetchOk(t)
        \/ FetchFail(t)
        \/ ConcatAssign(t)

ConcInit == InitWith({Entry("p", <<1, 9>>, 0)})

SpecConc == ConcInit /\ [][ConcNext]_vars

\* The loop of __init__ run to its end on a remote side: the locals at line 103.
RECURSIVE LoopFrom(_, _)
LoopFrom(l, world) ==
    IF l.ci > Len(channels) THEN l
    ELSE LET channel == channels[l.ci]
             platform == platforms[l.pi]
             repo == world[<<channel, platform>>]
         IN LoopFrom(Advance([l EXCEPT
                 !.dfs = Append(@, BatchFrame(channel, platform, repo)),
                 !.flog = Append(@, [channel |-> channel, platform |-> platform,
                                     repo |-> repo])]), world)

\* The state in which the first RepoData() of a process has just returned.
AfterConstruct(world) ==
    LET l == LoopFrom([NoLocals EXCEPT !.kind = "RepoData", !.self = 1,
                                       !.path = "network"], world)
    IN [instance |-> 1,
        objs |-> [o \in Threads |->
                    IF o = 1 THEN [exists |-> TRUE, hasdf |-> TRUE, df |-> Concat(l.dfs)]
                    ELSE NoObj],
        file |-> [exists |-> FALSE, content |-> NoFile],
        fr |-> [t \in Threads |-> IF t = 1 THEN l ELSE NoLocals],
        ret |-> [t \in Threads |->
                    IF t = 1 THEN Result("RepoData", <<NoneV>>, Ok(IntV(1))) ELSE NoRet],
        calls |-> [t \in Threads |-> IF t = 1 THEN 1 ELSE 0],
        io |-> "none"]

\* The state in which instance.__init__(cache) has just returned for the
\* second time after that: the first wrote the cache file, the second read it.
AfterReload(world) ==
    LET s == AfterConstruct(world)
        content == ToCsv(s.objs[1].df)
    IN [s EXCEPT
          !.objs[1].df = ReadTable(content),
          !.file = [exists |-> TRUE, content |-> content],
          !.fr[1] = [NoLocals EXCEPT !.kind = "__init__", !.cache = CachePath,
                                     !.self = 1, !.path = "cache"],
          !.ret[1] = Result("__init__", <<CachePath>>, Ok(NoneV)),
          !.calls[1] = 3,
          !.io = "read"]

\* The queries start from a finished construction: a table built from the
\* network, or one read back from the cache file.
QueryInit ==
    /\ remote \in Worlds(Entries)
    /\ \E s \in {AfterConstruct(remote), AfterReload(remote)} :
         /\ instance = s.instance
         /\ objs = s.objs
         /\ file = s.file
         /\ fr = s.fr
         /\ ret = s.ret
         /\ calls = s.calls
         /\ io = s.io
    /\ pc = [t \in Threads |-> "idle"]
    /\ held = [t \in Threads |-> IF t = 1 THEN 1 ELSE 0]

QueryNext ==
    \/ GetVersions(1)
    \/ GetChannels(1)
    \/ GetLatestVersions(1)
    \/ GetPackageData(1)
    \/ Receive(1)

SpecQuery == QueryInit /\ [][QueryNext]_vars

\* In Spec, the states in which a call has just returned without a failure
\* before it are the initial states of SpecQuery.
QueryInitReached ==
    LET here == [instance |-> instance, objs |-> objs, file |-> file, fr |-> fr,
                 ret |-> ret, calls |-> calls, io |-> io]
    IN /\ (pc[1] = "idle" /\ calls[1] = 1 /\ held[1] = 1) => here = AfterConstruct(remote)
       /\ (pc[1] = "idle" /\ calls[1] = 3 /\ fr[1].path = "cache"
             /\ ret[1].op = "__init__")
            => here = AfterReload(remote)

\* ============================================================= properties

BuildPath == {"fetch", "concat", "to_csv"}
QueryOps == {"get_versions", "get_channels", "get_latest_versions", "get_package_data"}

\* The instance a thread's finished RepoData() returned.
Handed == {held[t] : t \in Threads} \ {0}

\* C1: only the first RepoData(...) request builds the table and at most one
\* instance exists: once a request has returned the instance, no later
\* request is on the build path (fetching, assigning the table or writing it).
C1_OnlyFirstRequestBuilds ==
    /\ Cardinality({o \in Threads : objs[o].exists}) <= 1
    /\ \A t \in Threads :
         (fr[t].kind = "RepoData" /\ pc[t] \in BuildPath) => Handed = {}

\* A RepoData() request of thread t has just failed in a fetch.
ConstructionFailed(t) ==
    /\ pc[t] = "idle"
    /\ ret[t].op = "RepoData"
    /\ ret[t].status = "raise"
    /\ ret[t].val[1] \in {"HTTPError", "JSONDecodeError"}

\* C2: a construction whose fetch fails raises an error that carries the
\* attempted URL for a non-200 status, and leaves no instance stored that
\* has no table.
C2_NoInstanceAfterFailure ==
    \A t \in Threads :
        ConstructionFailed(t) =>
            /\ ret[t].val[1] = "HTTPError" =>
                 ret[t].val[2][3] = RepodataUrl(channels[fr[t].ci], platforms[fr[t].pi])
            /\ instance = 0 \/ objs[instance].hasdf

\* C3: with threads constructing concurrently and no fetch failing, the build
\* path is entered by at most one of them, and all callers get the same
\* instance.
C3_SingleFlight ==
    (\A t \in Threads : ret[t].status # "raise") =>
        /\ Cardinality({t \in Threads : fr[t].path = "network"}) <= 1
        /\ Cardinality(Handed) <= 1

\* The rows of a table as tuples over the class's columns, with how often each occurs.
RowTuple(r) == [k \in DOMAIN columns |-> r[columns[k]]]
RowCount(df, tup) == Cardinality({i \in DOMAIN df.rows : RowTuple(df.rows[i]) = tup})
SameRows(a, b) ==
    /\ Len(a.rows) = Len(b.rows)
    /\ \A i \in DOMAIN a.rows :
         RowCount(a, RowTuple(a.rows[i])) = RowCount(b, RowTuple(a.rows[i]))

\* C4: a construction with a cache path and no file there builds the table
\* and has persisted it when it returns; a construction that finds the file
\* fetches nothing and yields the persisted table: the same rows and exactly
\* the columns build, build_number, name, version, channel, subdir, platform.
C4_CacheRoundTrip ==
    \A t \in Threads :
        /\ (pc[t] = "idle" /\ ret[t].op = "RepoData" /\ ret[t].args = <<CachePath>>)
             => (ret[t].status = "ok" /\ file.exists)
        /\ (pc[t] = "idle" /\ fr[t].path = "cache" /\ ret[t].status = "ok")
             => /\ fr[t].flog = <<>>
                /\ Range(objs[fr[t].self].df.columns) = Range(columns)
                /\ SameRows(objs[fr[t].self].df, AfterConstruct(remote).objs[1].df)

\* C5: get_channels with name, version and build_number all provided returns
\* exactly the channels of the rows that match all three, build_number 0
\* included.
C5_ExactChannels ==
    \A t \in Threads :
        (ret[t].op = "get_channels" /\ ret[t].args[2] # NoneV /\ ret[t].args[3] # NoneV) =>
            /\ ret[t].status = "ok"
            /\ ret[t].val =
                 {r["channel"] : r \in {x \in Range(objs[held[t]].df.rows) :
                     /\ x["name"] = ret[t].args[1]
                     /\ x["version"] = ret[t].args[2]
                     /\ x["build_number"] = ret[t].args[3].v}}

\* The version comparator: components compared as numbers, a missing
\* component counting as 0.
RECURSIVE VersionLess(_, _)
VersionLess(a, b) ==
    IF a = <<>> /\ b = <<>> THEN FALSE
    ELSE LET x == IF a = <<>> THEN 0 ELSE Head(a)
             y == IF b = <<>> THEN 0 ELSE Head(b)
         IN IF x # y THEN x < y
            ELSE VersionLess(IF a = <<>> THEN a ELSE Tail(a), IF b = <<>> THEN b ELSE Tail(b))

\* C6: get_latest_versions(channel) returns one entry per package name of
\* the channel, whose value is that package's maximum version under the
\* version comparator.
C6_LatestVersions ==
    \A t \in Threads :
        ret[t].op = "get_latest_versions" =>
            LET rows == {r \in Range(objs[held[t]].df.rows) : r["channel"] = ret[t].args[1]}
                of(n) == {r["version"] : r \in {x \in rows : x["name"] = n}}
            IN /\ ret[t].status = "ok"
               /\ DOMAIN ret[t].val = {r["name"] : r \in rows}
               /\ \A n \in DOMAIN ret[t].val :
                    /\ ret[t].val[n] \in of(n)
                    /\ \A v \in of(n) : ~VersionLess(ret[t].val[n].v, v.v)

\* C7: get_package_data returns the key of exactly the rows that satisfy
\* every provided filter, each filter applying on its own; no combination of
\* filters makes the call fail (an unsupported host with native=True aside).
C7_FiltersApply ==
    \A t \in Threads :
        (ret[t].op = "get_package_data"
            /\ (ret[t].args[7] => native_platform(ret[t].args[8]).status = "ok")) =>
            LET a == ret[t].args
                keep(r) ==
                    /\ a[5] # NoneV => r["build_number"] = a[5].v
                    /\ IF a[7]
                       THEN r["platform"] \in {"noarch", native_platform(a[8]).val}
                       ELSE a[6] # NoneV => r["platform"] = a[6].v
                kept == SelectSeq(objs[held[t]].df.rows, keep)
            IN /\ ret[t].status = "ok"
               /\ ret[t].val = [i \in DOMAIN kept |-> kept[i][a[1]]]

\* C8: get_versions(name) returns a mapping whose keys are the distinct
\* versions of the rows with that name, each mapped to the distinct platforms
\* of the rows with that name and version, each platform listed once.
C8_VersionsMapping ==
    \A t \in Threads :
        ret[t].op = "get_versions" =>
            LET rows == {r \in Range(objs[held[t]].df.rows) : r["name"] = ret[t].args[1]}
                plats(v) == {r["platform"] : r \in {x \in rows : x["version"] = v}}
            IN /\ ret[t].status = "ok"
               /\ DOMAIN ret[t].val = {r["version"] : r \in rows}
               /\ \A v \in DOMAIN ret[t].val :
                    /\ Range(ret[t].val[v]) = plats(v)
                    /\ Len(ret[t].val[v]) = Cardinality(plats(v))

\* C8's case: a version of the named package that is on two platforms.
C8_Witness ==
    \E t \in Threads :
        /\ ret[t].op = "get_versions"
        /\ ret[t].status = "ok"
        /\ \E v \in DOMAIN ret[t].val : Len(ret[t].val[v]) = 2

\* The configured (channel, platform) pairs in the order of the two loops.
AllPairs ==
    [k \in 1..(Len(channels) * Len(platforms)) |->
        <<channels[((k - 1) \div Len(platforms)) + 1],
          platforms[((k - 1) % Len(platforms)) + 1]>>]

\* Rows of the table that precede those of the k-th fetch.
RECURSIVE Before(_, _)
Before(flog, k) ==
    IF k = 1 THEN 0 ELSE Before(flog, k - 1) + Len(flog[k - 1].repo.packages)

\* A network build of thread t has just returned.
NetworkBuilt(t) ==
    pc[t] = "idle" /\ fr[t].path = "network" /\ ret[t].status = "ok"

\* C9: a network build fetches each configured (channel, platform) pair
\* exactly once, in order, and every row that came from the fetch for (c, p)
\* has channel c and platform p and the subdir of that document's info block.
C9_BatchStamping ==
    \A t \in Threads :
        NetworkBuilt(t) =>
            LET flog == fr[t].flog
                df == objs[fr[t].self].df
            IN /\ [k \in DOMAIN flog |-> <<flog[k].channel, flog[k].platform>>] = AllPairs
               /\ \A k \in DOMAIN flog : flog[k].repo = remote[AllPairs[k]]
               /\ Len(df.rows) = Before(flog, Len(flog) + 1)
               /\ \A k \in DOMAIN flog :
                    \A j \in DOMAIN flog[k].repo.packages :
                        LET r == df.rows[Before(flog, k) + j]
                            b == flog[k].repo.packages[j].block
                        IN /\ r["channel"] = AllPairs[k][1]
                           /\ r["platform"] = AllPairs[k][2]
                           /\ r["subdir"] = flog[k].repo.info.subdir
                           /\ \A c \in Range(load_columns) : r[c] = b[c]

\* C9's case: a finished network build with rows from two channels, one of
\* them from a document whose subdir is not the one asked for.
C9_Witness ==
    \E t \in Threads :
        /\ NetworkBuilt(t)
        /\ \E r1, r2 \in Range(objs[fr[t].self].df.rows) :
             /\ r1["channel"] # r2["channel"]
             /\ r1["subdir"] # platform2subdir(r1["platform"]).val

\* C10: after construction, a query call, one that raises included, leaves
\* the table as it is and does no fetch and no read or write of the cache
\* file. (A step is a query call when it delivers a query's result.)
C10_QueriesReadOnly ==
    [][(\E t \in Threads : ret[t].op \notin QueryOps /\ ret'[t].op \in QueryOps)
          => (objs' = objs /\ instance' = instance /\ file' = file /\ io' = "none")]_vars

\* C10's case: a query has raised on a table that has rows and a cache file.
C10_Witness ==
    \E t \in Threads :
        /\ ret[t].op = "get_package_data"
        /\ ret[t].status = "raise"
        /\ objs[held[t]].df.rows # <<>>
        /\ file.exists

====
